---- MODULE Spec2Model ----
(***************************************************************************)
(* The message-driven controller of the Borderlands 3 save editor          *)
(* (bl3_save_edit_ui/src/bl3_ui.rs): Bl3Application::update as one action   *)
(* per message variant, the asynchronous commands it issues as records in  *)
(* flight, and the collaborators the commands run (directory scan, backup  *)
(* and write, directory picker, config store) as worker steps.             *)
(* The editors' state is carried by a few fields (slot, save type, level,  *)
(* profile type, golden keys); the handlers of the other fields write only *)
(* fields the model does not carry.  The flags that record an open picker  *)
(* window (lines 274, 1201, 1266) drive the views only and are left out,   *)
(* as are the messages of the release update (lines 217-258).  The         *)
(* messages of the widgets come from the interface on screen, which is     *)
(* rebuilt after a batch of messages and not after each of them.           *)
(***************************************************************************)
EXTENDS Naturals, Integers, Sequences, FiniteSets, TLC

VARIABLES
    config,                 \* Bl3Config: saves_dir, backup_dir, ui_scale_factor
    settings_state,         \* SettingsState: the mirror of config shown in the Settings tab
    view_state,             \* ViewState
    manage_save_state,      \* ManageSaveState: current_file + save_view_state
    manage_profile_state,   \* ManageProfileState: current_file + profile_view_state
    loaded_files_selected,  \* Box<Bl3FileType>
    loaded_files,           \* Vec<Bl3FileType>
    notification,           \* Option<Notification>: <<>> or <<n>>
    is_reloading_saves,     \* bool
    aborted,                \* the process panicked (expect / panic!)
    cmds,                   \* the asynchronous commands in flight
    disk,                   \* the saves directories: directory -> the files in it
    rendered,               \* the tag of the ViewState the interface on screen was built from
    budget                  \* history: the events of the run so far

vars == <<config, settings_state, view_state, manage_save_state, manage_profile_state,
          loaded_files_selected, loaded_files, notification, is_reloading_saves,
          aborted, cmds, disk, rendered, budget>>

-----------------------------------------------------------------------------
(* Bounds of the model *)

\* commands in flight at once
MaxInFlight == 2
\* character levels 1..MaxLevel are valid; 0 and MaxLevel + 1 are the out-of-range inputs
MaxLevel == 2
\* golden keys 0..MaxKeys are valid; MaxKeys + 1 is the out-of-range input
MaxKeys == 1
\* events in one run: field edits, commits (Save button presses), settings
\* interactions (scale change, choose, change or open a directory) and failures of
\* the collaborators (mapper, codec, file system, picker)
MaxEvents == 2

-----------------------------------------------------------------------------
(* Program constants.  The UI scale factor is counted in steps of 0.05.     *)

\* 0.50 (line 1312)
MinScaleSteps == 10
\* 2.0 (line 1326)
MaxScaleSteps == 40

-----------------------------------------------------------------------------
(* Strings that are computed on (file names) are sequences of characters.  *)

Chars == << ".", "0", "1", "2", "3", "4", "5", "6", "7", "8", "9",
            "a", "b", "c", "d", "e", "f", "g", "h", "i", "j", "k", "l", "m",
            "n", "o", "p", "q", "r", "s", "t", "u", "v", "w", "x", "y", "z" >>

CharCode(c) == CHOOSE i \in 1..Len(Chars) : Chars[i] = c

RECURSIVE StrLess(_, _)
StrLess(a, b) ==
    IF b = <<>> THEN FALSE
    ELSE IF a = <<>> THEN TRUE
    ELSE IF CharCode(Head(a)) < CharCode(Head(b)) THEN TRUE
    ELSE IF CharCode(Head(a)) > CharCode(Head(b)) THEN FALSE
    ELSE StrLess(Tail(a), Tail(b))

HexDigits == << "0", "1", "2", "3", "4", "5", "6", "7", "8", "9",
                "a", "b", "c", "d", "e", "f" >>

\* LowerHex keeping the last digit only
LowerHexOfLastDigit(n) == << HexDigits[(n % 16) + 1] >>

\* format!("{:x}", n)
RECURSIVE LowerHex(_)
LowerHex(n) ==
    IF n < 16 THEN << HexDigits[n + 1] >>
    ELSE LowerHex(n \div 16) \o << HexDigits[(n % 16) + 1] >>

\* format!("{:x}.sav", slot)
SlotFileName(slot) == LowerHex(slot) \o << ".", "s", "a", "v" >>

ProfileFileName == << "p", "r", "o", "f", "i", "l", "e", ".", "s", "a", "v" >>

-----------------------------------------------------------------------------
(* Files *)

SaveHeaderTypes == {"PcSave", "Ps4Save"}
ProfileHeaderTypes == {"PcProfile", "Ps4Profile"}

\* Bl3Save
Save(header_type, slot, level) ==
    [header_type |-> header_type, file_name |-> SlotFileName(slot),
     slot |-> slot, player_level |-> level]

\* Bl3Profile
Profile(header_type, keys) ==
    [header_type |-> header_type, file_name |-> ProfileFileName, golden_keys |-> keys]

\* Bl3FileType: the variant and the model it wraps
FileType(kind, model) == [kind |-> kind, model |-> model]

IsSaveKind(f) == f.kind \in SaveHeaderTypes
IsProfileKind(f) == f.kind \in ProfileHeaderTypes

\* Default::default() of the models and of Box<Bl3FileType>
DefaultSave == [header_type |-> "PcSave", file_name |-> <<>>, slot |-> 0, player_level |-> 0]
DefaultProfile == [header_type |-> "PcProfile", file_name |-> <<>>, golden_keys |-> 0]
DefaultFileType == FileType("PcSave", DefaultSave)

\* PartialEq of Bl3FileType: the variant and the file name
FileEq(a, b) == a.kind = b.kind /\ a.model.file_name = b.model.file_name

\* Ord of Bl3FileType: by file name
FileLess(a, b) == StrLess(a.model.file_name, b.model.file_name)

-----------------------------------------------------------------------------
(* files.sort(): a stable sort by Ord *)

RECURSIVE InsertSorted(_, _)
InsertSorted(f, s) ==
    IF s = <<>> THEN << f >>
    ELSE IF FileLess(Head(s), f) THEN << Head(s) >> \o InsertSorted(f, Tail(s))
    ELSE << f >> \o s

\* SortFiles without the sort
Unsorted(s) == s

RECURSIVE SortFiles(_)
SortFiles(s) == IF s = <<>> THEN <<>> ELSE InsertSorted(Head(s), SortFiles(Tail(s)))

\* the orders in which a scan may return the files of a directory
Orderings(S) ==
    { s \in [1..Cardinality(S) -> S] : \A i, j \in 1..Cardinality(S) : i # j => s[i] # s[j] }

SeqToSet(s) == { s[i] : i \in 1..Len(s) }

-----------------------------------------------------------------------------
(* The directories *)

\* PathBuf::default()
DefaultPath == ""

\* a remembered directory that no longer exists
MissingDir == "gone"

\* the external codec.  Bytes are a sequence of numbers: the header code, then the
\* fields; the file name is the name of the file on disk, not part of its bytes.
HeaderTypes == << "PcSave", "Ps4Save", "PcProfile", "Ps4Profile" >>
HeaderCode(h) == CHOOSE i \in 1..Len(HeaderTypes) : HeaderTypes[i] = h

\* AsBytes writing the first level for every save
AsBytesWithoutLevel(m) ==
    IF "slot" \in DOMAIN m
    THEN << CHOOSE i \in 1..4 : << "PcSave", "Ps4Save", "PcProfile", "Ps4Profile" >>[i] = m.header_type,
            m.slot, 1 >>
    ELSE << CHOOSE i \in 1..4 : << "PcSave", "Ps4Save", "PcProfile", "Ps4Profile" >>[i] = m.header_type,
            m.golden_keys >>

\* serialize: the header the model carries, then the fields of the model
AsBytes(m) ==
    IF "slot" \in DOMAIN m
    THEN << HeaderCode(m.header_type), m.slot, m.player_level >>
    ELSE << HeaderCode(m.header_type), m.golden_keys >>

\* parse
Parse(file_name, bytes) ==
    IF HeaderTypes[bytes[1]] \in SaveHeaderTypes
    THEN [header_type |-> HeaderTypes[bytes[1]], file_name |-> file_name,
          slot |-> bytes[2], player_level |-> bytes[3]]
    ELSE [header_type |-> HeaderTypes[bytes[1]], file_name |-> file_name,
          golden_keys |-> bytes[2]]

\* the bytes have the layout their header announces
Parses(bytes) ==
    Len(bytes) = IF HeaderTypes[bytes[1]] \in SaveHeaderTypes THEN 3 ELSE 2

\* a file on disk
OnDisk(m) == [file_name |-> m.file_name, bytes |-> AsBytes(m)]

\* what the saves directories hold when the program starts
DiskInit ==
    [d \in {"d1", "d2", "empty"} |->
        CASE d = "d1" -> { OnDisk(Save("PcSave", 1, 1)), OnDisk(Profile("PcProfile", 0)) }
          [] d = "d2" -> { OnDisk(Profile("Ps4Profile", 1)) }
          [] OTHER -> {} ]

\* the directories the picker can return
SavesDirs == DOMAIN disk
BackupDirs == {"bk1", "bk2"}

\* Exists holding of every path
AlwaysExists(dir) == TRUE

\* Path::exists
Exists(dir) == dir \in DOMAIN disk

-----------------------------------------------------------------------------
(* Values of the controller's state *)

\* ViewState
View(tag, tab) == [tag |-> tag, tab |-> tab]
Initializing == View("Initializing", "-")
Loading == View("Loading", "-")
ChooseSaveDirectory == View("ChooseSaveDirectory", "-")
ManageSave(tab) == View("ManageSave", tab)
ManageProfile(tab) == View("ManageProfile", tab)

\* SaveTabBarView, ProfileTabBarView
SaveTabs == {"General", "Character", "Inventory", "Currency", "Vehicle", "Settings"}
ProfileTabs == {"General", "Profile", "Keys", "Bank", "Settings"}

\* Some(Notification::new(message, sentiment)), None
Notify(message, sentiment) == << [message |-> message, sentiment |-> sentiment] >>
None == <<>>

\* the inputs the messages carry in the model: a valid and an out-of-range value of
\* the numeric fields, a slot other than the loaded one, two tabs of each tab bar,
\* and of the HeaderType a type message carries the two of the domain and one of the
\* other domain
SlotInputs == {26}
LevelInputs == {0, MaxLevel, MaxLevel + 1}
KeysInputs == {MaxKeys, MaxKeys + 1}
SaveTypeInputs == {"PcSave", "Ps4Save", "PcProfile"}
ProfileTypeInputs == {"PcProfile", "Ps4Profile", "PcSave"}
SaveTabInputs == {"General", "Settings"}
ProfileTabInputs == {"General", "Settings"}

\* REQUIRED_XP_LIST[level - 1][0]: the experience a level requires
REQUIRED_XP_LIST == << 0, 358, 1241, 2850, 5376, 8997 >>

\* the experience points entered: within a level, and below every level
XpInputs == {REQUIRED_XP_LIST[MaxLevel] + 1, -1}

-----------------------------------------------------------------------------
(* Commands in flight: Command::perform(future, message) *)

FreeId == CHOOSE i \in 1..MaxInFlight : \A c \in cmds : c.id # i

\* the commands in flight that run op
Running(op) == { c \in cmds : c.op = op }

\* the bound on the commands in flight
CanIssue == Cardinality(cmds) < MaxInFlight

\* LoadFilesInDirectory scanning the remembered directory whatever dir is
LoadFilesInRememberedDirectory(id, dir) ==
    [id |-> id, op |-> "load_files_in_directory", dir |-> config.saves_dir,
     stage |-> "issued", files |-> {}]

\* interaction::choose_save_directory::load_files_in_directory(dir)
LoadFilesInDirectory(id, dir) ==
    [id |-> id, op |-> "load_files_in_directory", dir |-> dir, stage |-> "issued",
     files |-> {}]

\* interaction::file_save::load_files_after_save(dir, saved_file)
LoadFilesAfterSave(id, dir, saved_file) ==
    [id |-> id, op |-> "load_files_after_save", dir |-> dir, saved_file |-> saved_file,
     stage |-> "issued", files |-> {}]

\* ConfigSave carrying the config as it was when the handler started
ConfigSaveStale(id, cfg) == [id |-> id, op |-> "config_save", config |-> config]

\* self.config.clone().save()
ConfigSave(id, cfg) == [id |-> id, op |-> "config_save", config |-> cfg]

\* interaction::choose_dir(initial), interaction::choose_save_directory::choose(initial)
ChooseDir(id, purpose, initial) ==
    [id |-> id, op |-> "choose_dir", purpose |-> purpose, initial |-> initial]

\* interaction::settings::open_dir(dir)
OpenDir(id, which, dir) == [id |-> id, op |-> "open_dir", which |-> which, dir |-> dir]

\* SaveFile handing the edited clone to the write as the existing file
SaveFileOfEdited(id, backup_dir, output_file, output, existing_save, new_save) ==
    [id |-> id, op |-> "save_file", backup_dir |-> backup_dir, output_file |-> output_file,
     output |-> output, existing |-> new_save, new |-> new_save,
     backup |-> "none", write |-> "none"]

\* interaction::file_save::save_file(backup_dir, output_file, output, existing_save, new_save)
\* backup and write record how far the worker got: "none", "ok" or "failed"
SaveFile(id, backup_dir, output_file, output, existing_save, new_save) ==
    [id |-> id, op |-> "save_file", backup_dir |-> backup_dir, output_file |-> output_file,
     output |-> output, existing |-> existing_save, new |-> new_save,
     backup |-> "none", write |-> "none"]

\* interaction::file_save::save_profile(backup_dir, saves_dir, output_file, output,
\*     existing_profile, new_profile, guardian_data_injection_required)
SaveProfile(id, backup_dir, saves_dir, output_file, output, existing_profile, new_profile, guardian_data_injection_required) ==
    [id |-> id, op |-> "save_profile", backup_dir |-> backup_dir, saves_dir |-> saves_dir,
     output_file |-> output_file, output |-> output, existing |-> existing_profile,
     new |-> new_profile, guardian |-> guardian_data_injection_required,
     backup |-> "none", write |-> "none"]

\* initialization::load_lazy_data()
LoadLazyData(id) == [id |-> id, op |-> "load_lazy_data"]

-----------------------------------------------------------------------------
(* Bl3Application::new(config) *)

InitConfigs ==
    { [saves_dir |-> d, backup_dir |-> "bk1", ui_scale_factor |-> s] :
        d \in {DefaultPath, MissingDir, "d1"},
        s \in {MinScaleSteps} }

DefaultSaveViewState ==
    [slot_input |-> 0, filename_input |-> <<>>, save_type_selected |-> "PcSave",
     level_input |-> 0, experience_points_input |-> 0]

DefaultProfileViewState ==
    [profile_type_selected |-> "PcProfile", golden_keys_input |-> 0]

Init ==
    /\ config \in InitConfigs
    /\ settings_state = [saves_dir_input |-> config.saves_dir,
                         backup_dir_input |-> config.backup_dir,
                         ui_scale_factor |-> config.ui_scale_factor]
    /\ view_state = Initializing
    /\ manage_save_state = [current_file |-> DefaultSave,
                            save_view_state |-> DefaultSaveViewState]
    /\ manage_profile_state = [current_file |-> DefaultProfile,
                               profile_view_state |-> DefaultProfileViewState]
    /\ loaded_files_selected = DefaultFileType
    /\ loaded_files = <<>>
    /\ notification = None
    /\ is_reloading_saves = FALSE
    /\ aborted = FALSE
    /\ cmds = { LoadLazyData(1) }
    /\ disk = DiskInit
    /\ rendered = view_state.tag
    /\ budget = 0

-----------------------------------------------------------------------------
(* state_mappers::map_loaded_file_to_state(self): the selected file becomes *)
(* the current file of its domain, its fields seed the editable state, and *)
(* the view enters the domain (keeping the tab when already in it).        *)

SaveStateOf(m) ==
    [current_file |-> m,
     save_view_state |->
        [slot_input |-> m.slot, filename_input |-> m.file_name,
         save_type_selected |-> m.header_type, level_input |-> m.player_level,
         experience_points_input |->
            IF m.player_level > 0 THEN REQUIRED_XP_LIST[m.player_level] ELSE 0]]

ProfileStateOf(m) ==
    [current_file |-> m,
     profile_view_state |->
        [profile_type_selected |-> m.header_type, golden_keys_input |-> m.golden_keys]]

\* MappedView showing the save editor for every file
MappedViewOfSave(f) ==
    IF view_state.tag = "ManageSave" THEN view_state ELSE ManageSave("General")

MappedView(f) ==
    IF IsSaveKind(f)
    THEN IF view_state.tag = "ManageSave" THEN view_state ELSE ManageSave("General")
    ELSE IF view_state.tag = "ManageProfile" THEN view_state ELSE ManageProfile("General")

\* ok: whether the mapping succeeded; a failed mapping returns before it changes anything
MapLoadedFileToState(f, ok) ==
    /\ manage_save_state' =
          IF ok /\ IsSaveKind(f) THEN SaveStateOf(f.model) ELSE manage_save_state
    /\ manage_profile_state' =
          IF ok /\ IsProfileKind(f) THEN ProfileStateOf(f.model) ELSE manage_profile_state
    /\ view_state' = IF ok THEN MappedView(f) ELSE view_state

\* handle_ui_error: an error becomes a Negative notification, a success leaves it alone
HandleUiError(ok, message, otherwise) ==
    IF ok THEN otherwise ELSE Notify(message, "Negative")

-----------------------------------------------------------------------------
(* The bounds on a run *)

\* what a step adds to the history: one if it is an event, one if a collaborator
\* failed in it (ok: it succeeded)
Cost(event, ok) == (IF event THEN 1 ELSE 0) + (IF ok THEN 0 ELSE 1)

\* the step fits in the run
Within(event, ok) == budget + Cost(event, ok) <= MaxEvents

-----------------------------------------------------------------------------
(* The directory scan collaborator *)

\* the scan wraps every parsed file in the variant of its header
Scanned(e) == FileType(Parse(e.file_name, e.bytes).header_type, Parse(e.file_name, e.bytes))
\* the files that fail to parse are left out
ScanResult(dir) == { Scanned(e) : e \in { d \in disk[dir] : Parses(d.bytes) } }

\* the worker reads the directory; an unreadable or missing directory is an error
ScanWorker(c, readable) ==
    /\ ~aborted
    /\ UNCHANGED rendered
    /\ Within(FALSE, readable)
    /\ c \in cmds
    /\ c.op \in {"load_files_in_directory", "load_files_after_save"}
    /\ c.stage = "issued"
    /\ readable => Exists(c.dir)
    /\ cmds' = (cmds \ {c}) \cup
          { [c EXCEPT !.stage = IF readable THEN "loaded" ELSE "failed",
                      !.files = IF readable THEN ScanResult(c.dir) ELSE {}] }
    /\ UNCHANGED <<config, settings_state, view_state, manage_save_state,
                   manage_profile_state, loaded_files_selected, loaded_files,
                   notification, is_reloading_saves, aborted, disk>>
    /\ budget' = budget + Cost(FALSE, readable)

-----------------------------------------------------------------------------
(* Bl3Message::Initialization *)

LoadSaves(c) ==
    /\ ~aborted
    /\ UNCHANGED rendered
    /\ c \in cmds
    /\ c.op = "load_lazy_data"
    /\ IF Exists(config.saves_dir)
       THEN /\ cmds' = (cmds \ {c}) \cup { LoadFilesInDirectory(c.id, config.saves_dir) }
            /\ UNCHANGED <<notification, view_state>>
       ELSE /\ cmds' = cmds \ {c}
            /\ notification' =
                  IF config.saves_dir # DefaultPath
                  THEN Notify("Failed to load your previously selected Save/Profile folder",
                              "Negative")
                  ELSE notification
            /\ view_state' = ChooseSaveDirectory
    /\ UNCHANGED <<config, settings_state, manage_save_state, manage_profile_state,
                   loaded_files_selected, loaded_files, is_reloading_saves, aborted,
                   disk, budget>>

-----------------------------------------------------------------------------
(* Bl3Message::Interaction: every handler below starts with                *)
(* self.notification = None (line 268).                                    *)

\* a widget of the view of tag can produce a message: the interface on screen was
\* built from that view, or the interface rebuilt from the present state is.  The
\* handlers of the completions do not rebuild the interface: a message of a widget
\* follows them in the same batch, produced by the interface built before them.
Shown(tag) == rendered = tag \/ view_state.tag = tag

\* the menu bar (refresh, pick list, Save button) is shown in the two Manage views
MenuBarShown == Shown("ManageSave") \/ Shown("ManageProfile")

\* the settings view is part of the two Manage views
SettingsShown == MenuBarShown

\* InteractionMessage::Ignore
Ignore ==
    /\ ~aborted
    /\ notification' = None
    /\ UNCHANGED <<config, settings_state, view_state, manage_save_state,
                   manage_profile_state, loaded_files_selected, loaded_files,
                   is_reloading_saves, aborted, cmds, disk, budget>>
    /\ rendered' = view_state'.tag

\* ChooseSaveInteractionMessage::ChooseDirPressed
ChooseDirPressed ==
    /\ ~aborted
    /\ Shown("ChooseSaveDirectory")
    /\ CanIssue
    /\ Within(TRUE, TRUE)
    /\ notification' = None
    /\ cmds' = cmds \cup { ChooseDir(FreeId, "choose", config.saves_dir) }
    /\ budget' = budget + Cost(TRUE, TRUE)
    /\ UNCHANGED <<config, settings_state, view_state, manage_save_state,
                   manage_profile_state, loaded_files_selected, loaded_files,
                   is_reloading_saves, aborted, disk>>
    /\ rendered' = view_state'.tag

\* SaveTabBar without the clearing of the notification
SaveTabBarKeepingNotification(tab) ==
    /\ ~aborted
    /\ Shown("ManageSave")
    /\ view_state' = ManageSave(tab)
    /\ UNCHANGED <<config, settings_state, manage_save_state, manage_profile_state,
                   loaded_files_selected, loaded_files, notification,
                   is_reloading_saves, aborted, cmds, disk, budget>>
    /\ rendered' = view_state'.tag

\* ManageSaveInteractionMessage::TabBar
SaveTabBar(tab) ==
    /\ ~aborted
    /\ Shown("ManageSave")
    /\ notification' = None
    /\ view_state' = ManageSave(tab)
    /\ UNCHANGED <<config, settings_state, manage_save_state, manage_profile_state,
                   loaded_files_selected, loaded_files, is_reloading_saves, aborted,
                   cmds, disk, budget>>
    /\ rendered' = view_state'.tag

\* SaveEdited showing the General tab after the edit
SaveEditedShowingGeneral(state) ==
    /\ ~aborted
    /\ Within(TRUE, TRUE)
    /\ Shown("ManageSave")
    /\ notification' = None
    /\ manage_save_state' = state
    /\ view_state' = ManageSave("General")
    /\ UNCHANGED <<config, settings_state, manage_profile_state,
                   loaded_files_selected, loaded_files, is_reloading_saves, aborted,
                   cmds, disk>>
    /\ budget' = budget + Cost(TRUE, TRUE)
    /\ rendered' = view_state'.tag

\* the frame of a handler that edits the save editor's state
SaveEdited(state) ==
    /\ ~aborted
    /\ Within(TRUE, TRUE)
    /\ Shown("ManageSave")
    /\ notification' = None
    /\ manage_save_state' = state
    /\ UNCHANGED <<config, settings_state, view_state, manage_profile_state,
                   loaded_files_selected, loaded_files, is_reloading_saves, aborted,
                   cmds, disk>>
    /\ budget' = budget + Cost(TRUE, TRUE)
    /\ rendered' = view_state'.tag

\* SaveGeneralInteractionMessage::Slot
SlotEdited(slot) ==
    [manage_save_state EXCEPT
        !.save_view_state.slot_input = slot,
        !.save_view_state.filename_input = SlotFileName(slot),
        !.current_file.file_name = SlotFileName(slot)]

Slot(slot) == SaveEdited(SlotEdited(slot))

\* SaveGeneralInteractionMessage::SaveTypeSelected
SaveTypeEdited(save_type) ==
    [manage_save_state EXCEPT !.save_view_state.save_type_selected = save_type]

SaveTypeSelected(save_type) ==
    SaveEdited(SaveTypeEdited(save_type))

\* LevelEdited writing the level into the current file as well
LevelEditedInPlace(level) ==
    [manage_save_state EXCEPT
        !.save_view_state.level_input = level,
        !.save_view_state.experience_points_input =
            IF level > 0 THEN REQUIRED_XP_LIST[level] ELSE 0,
        !.current_file.player_level = level]

\* SaveCharacterInteractionMessage::Level
LevelEdited(level) ==
    [manage_save_state EXCEPT
        !.save_view_state.level_input = level,
        !.save_view_state.experience_points_input =
            IF level > 0 THEN REQUIRED_XP_LIST[level] ELSE 0]

Level(level) == SaveEdited(LevelEdited(level))

\* ExperienceToLevel asking for more experience than the level requires
ExperienceToLevelStrict(xp) ==
    IF \A l \in 1..Len(REQUIRED_XP_LIST) : REQUIRED_XP_LIST[l] >= xp
    THEN [ok |-> FALSE, level |-> 0]
    ELSE [ok |-> TRUE,
          level |-> CHOOSE l \in 1..Len(REQUIRED_XP_LIST) :
                        /\ REQUIRED_XP_LIST[l] < xp
                        /\ \A k \in 1..Len(REQUIRED_XP_LIST) :
                              REQUIRED_XP_LIST[k] < xp => k <= l]

\* experience_to_level(xp): the highest level whose required experience xp reaches;
\* an error when it reaches none
ExperienceToLevel(xp) ==
    IF \A l \in 1..Len(REQUIRED_XP_LIST) : REQUIRED_XP_LIST[l] > xp
    THEN [ok |-> FALSE, level |-> 0]
    ELSE [ok |-> TRUE,
          level |-> CHOOSE l \in 1..Len(REQUIRED_XP_LIST) :
                        /\ REQUIRED_XP_LIST[l] <= xp
                        /\ \A k \in 1..Len(REQUIRED_XP_LIST) :
                              REQUIRED_XP_LIST[k] <= xp => k <= l]

\* SaveCharacterInteractionMessage::ExperiencePoints
ExperiencePointsEdited(xp) ==
    [manage_save_state EXCEPT
        !.save_view_state.experience_points_input = xp,
        !.save_view_state.level_input =
            IF ExperienceToLevel(xp).ok THEN ExperienceToLevel(xp).level ELSE 1]

ExperiencePoints(xp) == SaveEdited(ExperiencePointsEdited(xp))

\* Guid, GenerateGuidPressed, the Character messages other than Level, Currency and
\* Vehicle: each writes fields of save_view_state that the model does not carry
SaveFieldsEdited ==
    /\ ~aborted
    /\ Shown("ManageSave")
    /\ notification' = None
    /\ UNCHANGED <<config, settings_state, view_state, manage_save_state,
                   manage_profile_state, loaded_files_selected, loaded_files,
                   is_reloading_saves, aborted, cmds, disk, budget>>
    /\ rendered' = view_state'.tag

\* SaveInventoryInteractionMessage::Editor: ItemEditorInteractionMessage::update_state
\* works on the item editor's own state (not modelled) and returns the notification
\* to show; the rest of the save editor's state is as it was
SaveItemEdited == manage_save_state

SaveInventoryEditor(failed) ==
    /\ ~aborted
    /\ Within(FALSE, ~failed)
    /\ Shown("ManageSave")
    /\ manage_save_state' = SaveItemEdited
    /\ notification' = IF failed THEN Notify("Item editor", "Negative") ELSE None
    /\ UNCHANGED <<config, settings_state, view_state, manage_profile_state,
                   loaded_files_selected, loaded_files, is_reloading_saves, aborted,
                   cmds, disk>>
    /\ budget' = budget + Cost(FALSE, ~failed)
    /\ rendered' = view_state'.tag

-----------------------------------------------------------------------------
(* The commit of a save *)

\* MapAllStatesToSave bringing the level of the editor into range as it maps
MapAllStatesToSaveClamping(state, clone) ==
    LET v == state.save_view_state
    IN  [ok |-> v.level_input \in 1..MaxLevel,
         file |-> [clone EXCEPT !.slot = v.slot_input,
                                !.header_type = v.save_type_selected,
                                !.player_level = v.level_input],
         state |-> [state EXCEPT !.save_view_state.level_input =
                                    IF @ > MaxLevel THEN MaxLevel ELSE @]]

\* manage_save::map_all_states_to_save(&mut manage_save_state, &mut clone): every
\* editable field is applied to the clone; a field out of range is an error; state:
\* the editor's state as the mapping leaves it
MapAllStatesToSave(state, clone) ==
    LET v == state.save_view_state
    IN  [ok |-> v.level_input \in 1..MaxLevel,
         file |-> [clone EXCEPT !.slot = v.slot_input,
                                !.header_type = v.save_type_selected,
                                !.player_level = v.level_input],
         state |-> state]

\* the path of the selected file as the scan found it, whatever name is joined
JoinOfLoadedName(dir, file_name) ==
    [dir |-> dir, file_name |-> loaded_files_selected.model.file_name]

\* config.saves_dir().join(file_name)
Join(dir, file_name) == [dir |-> dir, file_name |-> file_name]

\* SaveFileIssued without the returns on a failed mapping or serialization
SaveFileIssuedUnchecked(serialized) ==
    LET current_file == manage_save_state.current_file
        mapped == MapAllStatesToSave(manage_save_state, current_file)
        output_file == Join(config.saves_dir, manage_save_state.current_file.file_name)
    IN  { SaveFile(FreeId, config.backup_dir, output_file, AsBytes(mapped.file),
                   manage_save_state.current_file, mapped.file) }

\* the commands SaveFilePressed issues; serialized: whether as_bytes() succeeded
SaveFileIssued(serialized) ==
    LET current_file == manage_save_state.current_file
        mapped == MapAllStatesToSave(manage_save_state, current_file)
        output_file == Join(config.saves_dir, manage_save_state.current_file.file_name)
    IN  IF ~mapped.ok THEN {}
        ELSE IF ~serialized THEN {}
        ELSE { SaveFile(FreeId, config.backup_dir, output_file, AsBytes(mapped.file),
                        manage_save_state.current_file, mapped.file) }

\* ManageSaveInteractionMessage::SaveFilePressed
SaveFilePressed(serialized) ==
    /\ ~aborted
    /\ Shown("ManageSave")
    /\ CanIssue
    /\ Within(TRUE, serialized)
    /\ cmds' = cmds \cup SaveFileIssued(serialized)
    /\ notification' =
          IF MapAllStatesToSave(manage_save_state, manage_save_state.current_file).ok
             /\ serialized
          THEN None
          ELSE Notify("Failed to save file", "Negative")
    /\ budget' = budget + Cost(TRUE, serialized)
    /\ manage_save_state' =
          MapAllStatesToSave(manage_save_state, manage_save_state.current_file).state
    /\ UNCHANGED manage_profile_state
    /\ UNCHANGED <<config, settings_state, view_state, loaded_files_selected, loaded_files,
                   is_reloading_saves, aborted, disk>>
    /\ rendered' = view_state'.tag

-----------------------------------------------------------------------------
(* interaction::file_save::save_file / save_profile: backup, then write     *)

IsSaveOp(c) == c.op \in {"save_file", "save_profile"}

\* the backup step: the pre-edit file is copied into the backup directory
BackupWorker(c, ok) ==
    /\ ~aborted
    /\ UNCHANGED rendered
    /\ Within(FALSE, ok)
    /\ c \in cmds
    /\ IsSaveOp(c)
    /\ c.backup = "none"
    /\ cmds' = (cmds \ {c}) \cup { [c EXCEPT !.backup = IF ok THEN "ok" ELSE "failed"] }
    /\ UNCHANGED <<config, settings_state, view_state, manage_save_state,
                   manage_profile_state, loaded_files_selected, loaded_files,
                   notification, is_reloading_saves, aborted, disk>>
    /\ budget' = budget + Cost(FALSE, ok)

\* CanWrite without the check of the backup
CanWriteWithoutBackup(c) == c.write = "none"

\* the write is attempted only after the backup succeeded
CanWrite(c) == c.backup = "ok" /\ c.write = "none"

\* the file system after the new bytes replace the destination
Written(c) ==
    [disk EXCEPT ![c.output_file.dir] =
        { e \in @ : e.file_name # c.output_file.file_name }
        \cup { [file_name |-> c.output_file.file_name, bytes |-> c.output] }]

\* the write step: a failed write leaves the destination as it was
WriteWorker(c, ok) ==
    /\ ~aborted
    /\ UNCHANGED rendered
    /\ Within(FALSE, ok)
    /\ c \in cmds
    /\ IsSaveOp(c)
    /\ CanWrite(c)
    /\ ok => Exists(c.output_file.dir)
    /\ cmds' = (cmds \ {c}) \cup { [c EXCEPT !.write = IF ok THEN "ok" ELSE "failed"] }
    /\ disk' = IF ok THEN Written(c) ELSE disk
    /\ UNCHANGED <<config, settings_state, view_state, manage_save_state,
                   manage_profile_state, loaded_files_selected, loaded_files,
                   notification, is_reloading_saves, aborted>>
    /\ budget' = budget + Cost(FALSE, ok)

\* the future has a result: MessageResult::handle_result(r)
SaveFinished(c) == c.backup = "failed" \/ c.write # "none"
SaveSucceeded(c) == c.write = "ok"

-----------------------------------------------------------------------------
(* Bl3Message::SaveFileCompleted, Bl3Message::SaveProfileCompleted         *)

\* ExpectedHeader taking every header type
AnyHeaderExpected(c) == TRUE

\* the match on header_type: the variant to reload, or a panic
ExpectedHeader(c) ==
    IF c.op = "save_file" THEN c.new.header_type \in SaveHeaderTypes
    ELSE c.new.header_type \in ProfileHeaderTypes

\* ReloadIssued carrying the selected file instead of the written one
ReloadOfSelection(c) == LoadFilesAfterSave(c.id, config.saves_dir, loaded_files_selected)

\* the command the success arm returns
ReloadIssued(c) ==
    LoadFilesAfterSave(c.id, config.saves_dir, FileType(c.new.header_type, c.new))

\* SaveFailed with the sentiment of a success
SaveFailedPositive(c) ==
    Notify(IF c.op = "save_file" THEN "Failed to save file" ELSE "Failed to save profile",
           "Positive")

\* the notification of the error arm: Notification::new(msg, Negative)
SaveFailed(c) ==
    Notify(IF c.op = "save_file" THEN "Failed to save file" ELSE "Failed to save profile",
           "Negative")

SaveCompleted(c) ==
    /\ ~aborted
    /\ UNCHANGED rendered
    /\ c \in cmds
    /\ IsSaveOp(c)
    /\ SaveFinished(c)
    /\ IF SaveSucceeded(c)
       THEN IF ExpectedHeader(c)
            THEN /\ notification' =
                       Notify(IF c.op = "save_file" THEN "Successfully saved file!"
                              ELSE "Successfully saved profile!", "Positive")
                 /\ is_reloading_saves' = TRUE
                 /\ cmds' = (cmds \ {c}) \cup { ReloadIssued(c) }
                 /\ UNCHANGED aborted
            ELSE /\ aborted' = TRUE
                 /\ cmds' = cmds \ {c}
                 /\ UNCHANGED <<notification, is_reloading_saves>>
       ELSE /\ notification' = SaveFailed(c)
            /\ cmds' = cmds \ {c}
            /\ UNCHANGED <<is_reloading_saves, aborted>>
    /\ UNCHANGED <<config, settings_state, view_state, manage_save_state,
                   manage_profile_state, loaded_files_selected, loaded_files,
                   disk, budget>>

-----------------------------------------------------------------------------
(* The commit of a profile *)

\* ProfileTabBar showing the General tab whatever tab was pressed
ProfileTabBarToGeneral(tab) ==
    /\ ~aborted
    /\ Shown("ManageProfile")
    /\ notification' = None
    /\ view_state' = ManageProfile("General")
    /\ UNCHANGED <<config, settings_state, manage_save_state, manage_profile_state,
                   loaded_files_selected, loaded_files, is_reloading_saves, aborted,
                   cmds, disk, budget>>
    /\ rendered' = view_state'.tag

\* ManageProfileInteractionMessage::TabBar
ProfileTabBar(tab) ==
    /\ ~aborted
    /\ Shown("ManageProfile")
    /\ notification' = None
    /\ view_state' = ManageProfile(tab)
    /\ UNCHANGED <<config, settings_state, manage_save_state, manage_profile_state,
                   loaded_files_selected, loaded_files, is_reloading_saves, aborted,
                   cmds, disk, budget>>
    /\ rendered' = view_state'.tag

\* the frame of a handler that edits the profile editor's state
ProfileEdited(state) ==
    /\ ~aborted
    /\ Within(TRUE, TRUE)
    /\ Shown("ManageProfile")
    /\ notification' = None
    /\ manage_profile_state' = state
    /\ UNCHANGED <<config, settings_state, view_state, manage_save_state,
                   loaded_files_selected, loaded_files, is_reloading_saves, aborted,
                   cmds, disk>>
    /\ budget' = budget + Cost(TRUE, TRUE)
    /\ rendered' = view_state'.tag

\* ProfileGeneralInteractionMessage::ProfileTypeSelected
ProfileTypeEdited(profile_type) ==
    [manage_profile_state EXCEPT !.profile_view_state.profile_type_selected = profile_type]

ProfileTypeSelected(profile_type) ==
    ProfileEdited(ProfileTypeEdited(profile_type))

\* ProfileKeysInteractionMessage::GoldenKeys
GoldenKeysEdited(golden_keys) ==
    [manage_profile_state EXCEPT !.profile_view_state.golden_keys_input = golden_keys]

GoldenKeys(golden_keys) ==
    ProfileEdited(GoldenKeysEdited(golden_keys))

\* the Profile messages and the Keys messages other than GoldenKeys: each writes
\* fields of profile_view_state that the model does not carry
ProfileFieldsEdited ==
    /\ ~aborted
    /\ Shown("ManageProfile")
    /\ notification' = None
    /\ UNCHANGED <<config, settings_state, view_state, manage_save_state,
                   manage_profile_state, loaded_files_selected, loaded_files,
                   is_reloading_saves, aborted, cmds, disk, budget>>
    /\ rendered' = view_state'.tag

\* ProfileBankInteractionMessage::Editor
ProfileItemEdited == manage_profile_state

ProfileBankEditor(failed) ==
    /\ ~aborted
    /\ Within(FALSE, ~failed)
    /\ Shown("ManageProfile")
    /\ manage_profile_state' = ProfileItemEdited
    /\ notification' = IF failed THEN Notify("Item editor", "Negative") ELSE None
    /\ UNCHANGED <<config, settings_state, view_state, manage_save_state,
                   loaded_files_selected, loaded_files, is_reloading_saves, aborted,
                   cmds, disk>>
    /\ budget' = budget + Cost(FALSE, ~failed)
    /\ rendered' = view_state'.tag

\* manage_profile::map_all_states_to_profile(&mut manage_profile_state, &mut clone):
\* Ok(guardian_data_injection_required) or an error
MapAllStatesToProfile(state, clone) ==
    LET v == state.profile_view_state
    IN  [ok |-> v.golden_keys_input \in 0..MaxKeys,
         file |-> [clone EXCEPT !.header_type = v.profile_type_selected,
                                !.golden_keys = v.golden_keys_input],
         guardian_data_injection_required |-> FALSE,
         state |-> state]

\* the commands SaveProfilePressed issues; serialized: whether as_bytes() succeeded
SaveProfileIssued(serialized) ==
    LET current_file == manage_profile_state.current_file
        mapped == MapAllStatesToProfile(manage_profile_state, current_file)
        output_file == Join(config.saves_dir, manage_profile_state.current_file.file_name)
    IN  IF ~mapped.ok THEN {}
        ELSE IF ~serialized THEN {}
        ELSE { SaveProfile(FreeId, config.backup_dir, config.saves_dir, output_file,
                           AsBytes(mapped.file), manage_profile_state.current_file,
                           mapped.file, mapped.guardian_data_injection_required) }

\* ManageProfileInteractionMessage::SaveProfilePressed
SaveProfilePressed(serialized) ==
    /\ ~aborted
    /\ Shown("ManageProfile")
    /\ CanIssue
    /\ Within(TRUE, serialized)
    /\ cmds' = cmds \cup SaveProfileIssued(serialized)
    /\ notification' =
          IF ~MapAllStatesToProfile(manage_profile_state,
                                    manage_profile_state.current_file).ok
          THEN Notify("Failed to save profile", "Negative")
          ELSE IF ~serialized THEN Notify("Failed to save file", "Negative")
          ELSE None
    /\ budget' = budget + Cost(TRUE, serialized)
    /\ UNCHANGED manage_save_state
    /\ manage_profile_state' =
          MapAllStatesToProfile(manage_profile_state, manage_profile_state.current_file).state
    /\ UNCHANGED <<config, settings_state, view_state, loaded_files_selected, loaded_files,
                   is_reloading_saves, aborted, disk>>
    /\ rendered' = view_state'.tag

-----------------------------------------------------------------------------
(* SettingsInteractionMessage *)

\* the directory picker's answer: a directory, or an error (cancelled)
Cancelled == "cancelled"

\* OpenConfigDir, OpenBackupDir, OpenSavesDir
OpenDirPressed(which) ==
    /\ ~aborted
    /\ Within(TRUE, TRUE)
    /\ SettingsShown
    /\ CanIssue
    /\ notification' = None
    /\ cmds' = cmds \cup
          { OpenDir(FreeId, which,
                    CASE which = "backup" -> config.backup_dir
                      [] which = "saves" -> config.saves_dir
                      [] OTHER -> "config") }
    /\ UNCHANGED <<config, settings_state, view_state, manage_save_state,
                   manage_profile_state, loaded_files_selected, loaded_files,
                   is_reloading_saves, aborted, disk>>
    /\ budget' = budget + Cost(TRUE, TRUE)
    /\ rendered' = view_state'.tag

\* the message of a failed open_dir
OpenDirFailure(which) ==
    CASE which = "config" -> "Failed to open config folder"
      [] which = "backup" -> "Failed to open backups folder"
      [] OTHER -> "Failed to open saves folder"

\* OpenConfigDirCompleted, OpenBackupDirCompleted, OpenSavesDirCompleted
OpenDirCompleted(c, ok) ==
    /\ ~aborted
    /\ UNCHANGED rendered
    /\ Within(FALSE, ok)
    /\ c \in cmds
    /\ c.op = "open_dir"
    /\ notification' = HandleUiError(ok, OpenDirFailure(c.which), None)
    /\ cmds' = cmds \ {c}
    /\ UNCHANGED <<config, settings_state, view_state, manage_save_state,
                   manage_profile_state, loaded_files_selected, loaded_files,
                   is_reloading_saves, aborted, disk>>
    /\ budget' = budget + Cost(FALSE, ok)

\* ChangeBackupDir, ChangeSavesDir
ChangeDirPressed(purpose) ==
    /\ ~aborted
    /\ Within(TRUE, TRUE)
    /\ SettingsShown
    /\ CanIssue
    /\ notification' = None
    /\ cmds' = cmds \cup
          { ChooseDir(FreeId, purpose,
                      IF purpose = "change_backup" THEN config.backup_dir
                      ELSE config.saves_dir) }
    /\ UNCHANGED <<config, settings_state, view_state, manage_save_state,
                   manage_profile_state, loaded_files_selected, loaded_files,
                   is_reloading_saves, aborted, disk>>
    /\ budget' = budget + Cost(TRUE, TRUE)
    /\ rendered' = view_state'.tag

\* BackupDirChanged without set_backup_dir
BackupDirKept(dir) == config

\* ChangeBackupDirCompleted
BackupDirChanged(dir) == [config EXCEPT !.backup_dir = dir]

\* BackupDirMirrored leaving the input of the settings as it was
BackupDirMirrorKept(dir) == settings_state

\* self.settings_state.backup_dir_input = self.config.backup_dir()
BackupDirMirrored(dir) == [settings_state EXCEPT !.backup_dir_input = dir]

ChangeBackupDirCompleted(c, dir) ==
    /\ ~aborted
    /\ UNCHANGED rendered
    /\ Within(FALSE, dir # Cancelled)
    /\ c \in cmds
    /\ c.op = "choose_dir"
    /\ c.purpose = "change_backup"
    /\ IF dir # Cancelled
       THEN /\ config' = BackupDirChanged(dir)
            /\ settings_state' = BackupDirMirrored(dir)
            /\ notification' = None
            /\ cmds' = (cmds \ {c}) \cup { ConfigSave(c.id, config') }
       ELSE /\ notification' = Notify("Failed to choose backups folder", "Negative")
            /\ cmds' = cmds \ {c}
            /\ UNCHANGED <<config, settings_state>>
    /\ UNCHANGED <<view_state, manage_save_state, manage_profile_state,
                   loaded_files_selected, loaded_files, is_reloading_saves, aborted,
                   disk>>
    /\ budget' = budget + Cost(FALSE, dir # Cancelled)

\* ChangeSavesDirCompleted
ChangeSavesDirCompleted(c, dir) ==
    /\ ~aborted
    /\ UNCHANGED rendered
    /\ Within(FALSE, dir # Cancelled)
    /\ c \in cmds
    /\ c.op = "choose_dir"
    /\ c.purpose = "change_saves"
    /\ IF dir # Cancelled
       THEN /\ view_state' = Loading
            /\ notification' = None
            /\ cmds' = (cmds \ {c}) \cup { LoadFilesInDirectory(c.id, dir) }
       ELSE /\ notification' = Notify("Failed to choose saves folder", "Negative")
            /\ cmds' = cmds \ {c}
            /\ UNCHANGED view_state
    /\ UNCHANGED <<config, settings_state, manage_save_state, manage_profile_state,
                   loaded_files_selected, loaded_files, is_reloading_saves, aborted,
                   disk>>
    /\ budget' = budget + Cost(FALSE, dir # Cancelled)

\* the scale factor after DecreaseUIScale (- 0.05 when >= 0.50)
Decreased(scale) == IF scale >= MinScaleSteps THEN scale - 1 ELSE scale

\* the scale factor after IncreaseUIScale (+ 0.05 when < 2.0)
Increased(scale) == IF scale < MaxScaleSteps THEN scale + 1 ELSE scale

\* DecreaseUIScale, IncreaseUIScale: scale is the new factor
UIScaleChanged(scale) ==
    /\ ~aborted
    /\ SettingsShown
    /\ scale # settings_state.ui_scale_factor => CanIssue
    /\ Within(TRUE, TRUE)
    /\ notification' = None
    /\ IF scale # settings_state.ui_scale_factor
       THEN /\ settings_state' = [settings_state EXCEPT !.ui_scale_factor = scale]
            /\ config' = [config EXCEPT !.ui_scale_factor = scale]
            /\ cmds' = cmds \cup { ConfigSave(FreeId, config') }
       ELSE UNCHANGED <<settings_state, config, cmds>>
    /\ budget' = budget + Cost(TRUE, TRUE)
    /\ UNCHANGED <<view_state, manage_save_state, manage_profile_state,
                   loaded_files_selected, loaded_files, is_reloading_saves, aborted, disk>>
    /\ rendered' = view_state'.tag

DecreaseUIScale == UIScaleChanged(Decreased(settings_state.ui_scale_factor))

IncreaseUIScale == UIScaleChanged(Increased(settings_state.ui_scale_factor))

-----------------------------------------------------------------------------
(* InteractionMessage::LoadedFileSelected, RefreshSavesDirectory           *)

\* the pick list offers the registry, and is replaced by a label while reloading;
\* the selections modelled are those of a pick list built from the present state
PickListOffers(f) ==
    /\ view_state.tag \in {"ManageSave", "ManageProfile"}
    /\ ~is_reloading_saves
    /\ f \in SeqToSet(loaded_files)

LoadedFileSelected(f, mapped) ==
    /\ ~aborted
    /\ Within(FALSE, mapped)
    /\ MenuBarShown
    /\ PickListOffers(f)
    /\ loaded_files_selected' = f
    /\ MapLoadedFileToState(f, mapped)
    /\ notification' = HandleUiError(mapped, "Failed to map loaded file to editor", None)
    /\ UNCHANGED <<config, settings_state, loaded_files, is_reloading_saves, aborted,
                   cmds, disk>>
    /\ budget' = budget + Cost(FALSE, mapped)
    /\ rendered' = view_state'.tag

RefreshSavesDirectory ==
    /\ ~aborted
    /\ MenuBarShown
    /\ CanIssue
    /\ Within(TRUE, TRUE)
    /\ notification' = None
    /\ view_state' = Loading
    /\ cmds' = cmds \cup { LoadFilesInDirectory(FreeId, config.saves_dir) }
    /\ budget' = budget + Cost(TRUE, TRUE)
    /\ UNCHANGED <<config, settings_state, manage_save_state, manage_profile_state,
                   loaded_files_selected, loaded_files, is_reloading_saves, aborted,
                   disk>>
    /\ rendered' = view_state'.tag

-----------------------------------------------------------------------------
(* Bl3Message::ChooseSave *)

\* ChooseSaveMessage::ChooseDirCompleted
ChooseDirCompleted(c, dir) ==
    /\ ~aborted
    /\ UNCHANGED rendered
    /\ Within(FALSE, dir # Cancelled)
    /\ c \in cmds
    /\ c.op = "choose_dir"
    /\ c.purpose = "choose"
    /\ IF dir # Cancelled
       THEN /\ view_state' = Loading
            /\ cmds' = (cmds \ {c}) \cup { LoadFilesInDirectory(c.id, dir) }
            /\ UNCHANGED notification
       ELSE /\ notification' = Notify("Failed to choose saves folder", "Negative")
            /\ cmds' = cmds \ {c}
            /\ UNCHANGED view_state
    /\ UNCHANGED <<config, settings_state, manage_save_state, manage_profile_state,
                   loaded_files_selected, loaded_files, is_reloading_saves, aborted,
                   disk>>
    /\ budget' = budget + Cost(FALSE, dir # Cancelled)

\* LoadFolderFailed with the sentiment of a success
LoadFolderFailedPositive == Notify("Failed to load save folder", "Positive")

\* the notification of a scan that failed: Notification::new(msg, Negative)
LoadFolderFailed == Notify("Failed to load save folder", "Negative")

\* the config after set_saves_dir(dir)
SavesDirSet(dir) == [config EXCEPT !.saves_dir = dir]

\* FirstFile keeping the selection it finds
KeptSelection(files) == loaded_files_selected

\* self.loaded_files.first().expect("loaded_files was empty").clone() (files is not empty)
FirstFile(files) == Head(files)

\* FilesLoaded dropping the result of the scan
FilesLoadedDiscarded(c, order, mapped) ==
    /\ ~aborted
    /\ mapped
    /\ c \in cmds
    /\ c.op = "load_files_in_directory"
    /\ c.stage # "issued"
    /\ order \in Orderings(c.files)
    /\ cmds' = cmds \ {c}
    /\ UNCHANGED <<config, settings_state, view_state, manage_save_state,
                   manage_profile_state, loaded_files_selected, loaded_files,
                   notification, is_reloading_saves, aborted, disk, rendered, budget>>

\* ChooseSaveMessage::FilesLoaded; order: the files as the scan returned them
FilesLoaded(c, order, mapped) ==
    /\ ~aborted
    /\ UNCHANGED rendered
    /\ Within(FALSE, mapped)
    /\ c \in cmds
    /\ c.op = "load_files_in_directory"
    /\ c.stage # "issued"
    /\ order \in Orderings(c.files)
    /\ IF c.stage = "loaded"
       THEN IF SortFiles(order) = <<>>
            THEN \* .expect("loaded_files was empty")
                 /\ mapped
                 /\ aborted' = TRUE
                 /\ cmds' = cmds \ {c}
                 /\ UNCHANGED <<config, settings_state, view_state, manage_save_state,
                                manage_profile_state, loaded_files_selected,
                                loaded_files, notification>>
            ELSE /\ loaded_files' = SortFiles(order)
                 /\ loaded_files_selected' = FirstFile(loaded_files')
                 /\ MapLoadedFileToState(loaded_files_selected', mapped)
                 /\ notification' =
                       HandleUiError(mapped, "Failed to map loaded file to editor",
                                     notification)
                 /\ config' = SavesDirSet(c.dir)
                 /\ settings_state' = [settings_state EXCEPT !.saves_dir_input = c.dir]
                 /\ cmds' = (cmds \ {c}) \cup { ConfigSave(c.id, config') }
                 /\ UNCHANGED aborted
       ELSE /\ mapped
            /\ view_state' = ChooseSaveDirectory
            /\ notification' = LoadFolderFailed
            /\ cmds' = cmds \ {c}
            /\ UNCHANGED <<config, settings_state, manage_save_state,
                           manage_profile_state, loaded_files_selected, loaded_files,
                           aborted>>
    /\ UNCHANGED <<is_reloading_saves, disk>>
    /\ budget' = budget + Cost(FALSE, mapped)

-----------------------------------------------------------------------------
(* Bl3Message::FilesLoadedAfterSave *)

\* self.loaded_files.iter().find(|f| **f == saved_file): the index found, or 0
FindSaved(files, saved_file) ==
    LET found == { i \in 1..Len(files) : FileEq(files[i], saved_file) }
    IN  IF found = {} THEN 0 ELSE CHOOSE i \in found : \A j \in found : i <= j

\* Reselected without the search for the saved file
ReselectedFirst(files, saved_file) == FirstFile(files)

\* the file selected after the reload (files is not empty)
Reselected(files, saved_file) ==
    IF FindSaved(files, saved_file) # 0 THEN files[FindSaved(files, saved_file)]
    ELSE FirstFile(files)

\* map_loaded_file_to_state runs for a profile that was found, and for the first
\* file when the saved file was not found
RemapsAfterSave(files, saved_file) ==
    FindSaved(files, saved_file) = 0 \/ IsProfileKind(Reselected(files, saved_file))

FilesLoadedAfterSave(c, order, mapped) ==
    /\ ~aborted
    /\ UNCHANGED rendered
    /\ Within(FALSE, mapped)
    /\ c \in cmds
    /\ c.op = "load_files_after_save"
    /\ c.stage # "issued"
    /\ order \in Orderings(c.files)
    /\ cmds' = cmds \ {c}
    /\ IF c.stage = "loaded"
       THEN IF SortFiles(order) = <<>>
            THEN \* find is None, then .expect("loaded_files was empty")
                 /\ mapped
                 /\ aborted' = TRUE
                 /\ UNCHANGED <<view_state, manage_save_state, manage_profile_state,
                                loaded_files_selected, loaded_files, notification,
                                is_reloading_saves>>
            ELSE /\ loaded_files' = SortFiles(order)
                 /\ loaded_files_selected' = Reselected(loaded_files', c.saved_file)
                 /\ IF RemapsAfterSave(loaded_files', c.saved_file)
                    THEN /\ MapLoadedFileToState(loaded_files_selected', mapped)
                         /\ notification' =
                               HandleUiError(mapped, "Failed to map loaded file to editor",
                                             notification)
                    ELSE /\ mapped
                         /\ UNCHANGED <<view_state, manage_save_state,
                                        manage_profile_state, notification>>
                 /\ is_reloading_saves' = FALSE
                 /\ UNCHANGED aborted
       ELSE /\ mapped
            /\ view_state' = ChooseSaveDirectory
            /\ notification' = LoadFolderFailed
            /\ is_reloading_saves' = FALSE
            /\ UNCHANGED <<manage_save_state, manage_profile_state,
                           loaded_files_selected, loaded_files, aborted>>
    /\ UNCHANGED <<config, settings_state, disk>>
    /\ budget' = budget + Cost(FALSE, mapped)

-----------------------------------------------------------------------------
(* Bl3Message::Config, Bl3Message::ClearNotification *)

\* ConfigSaveCompleted raising a notification and saving again on an error
ConfigSaveCompletedRetrying(c, ok) ==
    /\ ~aborted
    /\ c \in cmds
    /\ c.op = "config_save"
    /\ cmds' = IF ok THEN cmds \ {c} ELSE (cmds \ {c}) \cup { ConfigSave(c.id, config) }
    /\ notification' = IF ok THEN notification ELSE Notify("Failed to save config", "Negative")
    /\ UNCHANGED <<config, settings_state, view_state, manage_save_state,
                   manage_profile_state, loaded_files_selected, loaded_files,
                   is_reloading_saves, aborted, disk, rendered, budget>>

\* ConfigMessage::SaveCompleted: the result is logged
ConfigSaveCompleted(c, ok) ==
    /\ ~aborted
    /\ UNCHANGED rendered
    /\ c \in cmds
    /\ c.op = "config_save"
    /\ cmds' = cmds \ {c}
    /\ UNCHANGED <<config, settings_state, view_state, manage_save_state,
                   manage_profile_state, loaded_files_selected, loaded_files,
                   notification, is_reloading_saves, aborted, disk, budget>>

\* the notification's dismissal
ClearNotification ==
    /\ ~aborted
    /\ notification # None
    /\ notification' = None
    /\ UNCHANGED <<config, settings_state, view_state, manage_save_state,
                   manage_profile_state, loaded_files_selected, loaded_files,
                   is_reloading_saves, aborted, cmds, disk, budget>>
    /\ rendered' = view_state'.tag

-----------------------------------------------------------------------------
(* The dispatch loop and the workers *)

Next ==
    \/ \E c \in cmds : LoadSaves(c)
    \/ \E c \in cmds : \E ok \in BOOLEAN : ConfigSaveCompleted(c, ok)
    \/ Ignore
    \/ ChooseDirPressed
    \/ \E tab \in SaveTabInputs : SaveTabBar(tab)
    \/ \E slot \in SlotInputs : Slot(slot)
    \/ \E save_type \in SaveTypeInputs : SaveTypeSelected(save_type)
    \/ \E level \in LevelInputs : Level(level)
    \/ \E xp \in XpInputs : ExperiencePoints(xp)
    \/ SaveFieldsEdited
    \/ \E failed \in BOOLEAN : SaveInventoryEditor(failed)
    \/ \E serialized \in BOOLEAN : SaveFilePressed(serialized)
    \/ \E tab \in ProfileTabInputs : ProfileTabBar(tab)
    \/ \E profile_type \in ProfileTypeInputs : ProfileTypeSelected(profile_type)
    \/ \E golden_keys \in KeysInputs : GoldenKeys(golden_keys)
    \/ ProfileFieldsEdited
    \/ \E failed \in BOOLEAN : ProfileBankEditor(failed)
    \/ \E serialized \in BOOLEAN : SaveProfilePressed(serialized)
    \/ \E which \in {"config", "backup", "saves"} : OpenDirPressed(which)
    \/ \E c \in cmds : \E ok \in BOOLEAN : OpenDirCompleted(c, ok)
    \/ \E purpose \in {"change_backup", "change_saves"} : ChangeDirPressed(purpose)
    \/ \E c \in cmds : \E dir \in BackupDirs \cup {Cancelled} :
            ChangeBackupDirCompleted(c, dir)
    \/ \E c \in cmds : \E dir \in SavesDirs \cup {Cancelled} :
            ChangeSavesDirCompleted(c, dir)
    \/ DecreaseUIScale
    \/ IncreaseUIScale
    \/ \E f \in SeqToSet(loaded_files) : \E mapped \in BOOLEAN :
            LoadedFileSelected(f, mapped)
    \/ RefreshSavesDirectory
    \/ \E c \in cmds : \E dir \in SavesDirs \cup {Cancelled} : ChooseDirCompleted(c, dir)
    \/ \E c \in Running("load_files_in_directory") :
            \E order \in Orderings(c.files) : \E mapped \in BOOLEAN :
                FilesLoaded(c, order, mapped)
    \/ \E c \in cmds : SaveCompleted(c)
    \/ \E c \in Running("load_files_after_save") :
            \E order \in Orderings(c.files) : \E mapped \in BOOLEAN :
                FilesLoadedAfterSave(c, order, mapped)
    \/ ClearNotification
    \/ \E c \in cmds : \E readable \in BOOLEAN : ScanWorker(c, readable)
    \/ \E c \in cmds : \E ok \in BOOLEAN : BackupWorker(c, ok)
    \/ \E c \in cmds : \E ok \in BOOLEAN : WriteWorker(c, ok)

Spec == Init /\ [][Next]_vars

\* a directory scan in flight makes its next step
ScanSteps == \E c \in cmds : \E readable \in BOOLEAN : ScanWorker(c, readable)

\* the result of a finished scan is delivered to update()
ScansHandled ==
    \/ \E c \in Running("load_files_in_directory") :
            \E order \in Orderings(c.files) : \E mapped \in BOOLEAN :
                FilesLoaded(c, order, mapped)
    \/ \E c \in Running("load_files_after_save") :
            \E order \in Orderings(c.files) : \E mapped \in BOOLEAN :
                FilesLoadedAfterSave(c, order, mapped)

\* every issued directory scan eventually completes and its message is handled
FairSpec == Spec /\ WF_vars(ScanSteps) /\ WF_vars(ScansHandled)

-----------------------------------------------------------------------------
(* Properties *)

IsNegative(n) == n # None /\ n[1].sentiment = "Negative"

\* the mapping or the serialization of a commit fails
SaveCommitFails(serialized) ==
    ~MapAllStatesToSave(manage_save_state, manage_save_state.current_file).ok \/ ~serialized

ProfileCommitFails(serialized) ==
    ~MapAllStatesToProfile(manage_profile_state, manage_profile_state.current_file).ok
    \/ ~serialized

\* C1: a SaveFilePressed or SaveProfilePressed whose mapping or serialization fails
\* issues no command, raises a Negative notification and leaves the current file of
\* both domains, the registry, the selection and the files on disk as they were.
C1_FailedCommitChangesNothing ==
    [][ \A serialized \in BOOLEAN :
            (\/ SaveFilePressed(serialized) /\ SaveCommitFails(serialized)
             \/ SaveProfilePressed(serialized) /\ ProfileCommitFails(serialized))
            => /\ cmds' = cmds
               /\ IsNegative(notification')
               /\ manage_save_state'.current_file = manage_save_state.current_file
               /\ manage_profile_state'.current_file = manage_profile_state.current_file
               /\ loaded_files' = loaded_files
               /\ loaded_files_selected' = loaded_files_selected
               /\ disk' = disk ]_vars

\* a commit of an out-of-range level has been refused
C1_Witness ==
    /\ view_state.tag = "ManageSave"
    /\ manage_save_state.save_view_state.level_input \notin 1..MaxLevel
    /\ notification = Notify("Failed to save file", "Negative")
    /\ cmds = {}

\* C2: a commit attempts its write only after its backup succeeded: a commit whose
\* backup has not succeeded has not written, and a commit whose backup failed is
\* finished without a write, so that its completion carries the error.
C2_WriteFollowsBackup ==
    \A c \in cmds :
        IsSaveOp(c) =>
            /\ c.write # "none" => c.backup = "ok"
            /\ c.backup = "failed" => SaveFinished(c) /\ ~SaveSucceeded(c)

\* a commit has written the destination
C2_Witness ==
    \E c \in cmds :
        /\ IsSaveOp(c)
        /\ c.write = "ok"
        /\ [file_name |-> c.output_file.file_name, bytes |-> c.output] \in disk[c.output_file.dir]

\* the entries of files equal to saved_file
EqualEntries(files, saved_file) == { f \in SeqToSet(files) : FileEq(f, saved_file) }

\* the selection a successful reload owes: an entry equal to the saved file if there
\* is one, else the first entry
OwedSelection(selected, files, saved_file) ==
    IF EqualEntries(files, saved_file) # {}
    THEN selected \in EqualEntries(files, saved_file)
    ELSE selected = files[1]

\* C3: after a successful FilesLoadedAfterSave with a non-empty set of files, the
\* selection is the entry of the registry equal to the saved file if there is one,
\* and the first entry of the sorted registry otherwise, for saves and for profiles.
C3_ReselectsSavedFileOrFirst ==
    [][ \A c \in Running("load_files_after_save") :
          \A order \in Orderings(c.files) : \A mapped \in BOOLEAN :
            FilesLoadedAfterSave(c, order, mapped) /\ c.stage = "loaded" /\ c.files # {}
            => OwedSelection(loaded_files_selected', loaded_files', c.saved_file) ]_vars

\* a saved profile has been reselected, which is not the first entry of the registry
C3_Witness ==
    /\ notification = Notify("Successfully saved profile!", "Positive")
    /\ ~is_reloading_saves
    /\ Running("load_files_after_save") = {}
    /\ Len(loaded_files) = 2
    /\ IsProfileKind(loaded_files_selected)
    /\ loaded_files_selected = loaded_files[2]

InRegistry(f) == f \in SeqToSet(loaded_files)

ReloadInFlight == is_reloading_saves \/ Running("load_files_after_save") # {}

\* C4: whenever the registry is not empty and no reload is in flight, the selected
\* file is an element of the registry.
C4_SelectionInRegistry ==
    loaded_files # <<>> /\ ~ReloadInFlight => InRegistry(loaded_files_selected)

\* C4 as stated: whenever no reload is in flight, the selected file is an element of
\* the registry.
C4_AsStated == ~ReloadInFlight => InRegistry(loaded_files_selected)

\* the file committed under a new slot is selected in the reloaded registry
C4_Witness ==
    /\ ~ReloadInFlight
    /\ Len(loaded_files) = 3
    /\ loaded_files_selected.model.file_name = SlotFileName(26)
    /\ InRegistry(loaded_files_selected)

\* the field edits of the two editors
SlotEdit == \E slot \in SlotInputs : Slot(slot)

OtherFieldEdit ==
    \/ \E save_type \in SaveTypeInputs : SaveTypeSelected(save_type)
    \/ \E level \in LevelInputs : Level(level)
    \/ \E xp \in XpInputs : ExperiencePoints(xp)
    \/ SaveFieldsEdited
    \/ \E profile_type \in ProfileTypeInputs : ProfileTypeSelected(profile_type)
    \/ \E golden_keys \in KeysInputs : GoldenKeys(golden_keys)
    \/ ProfileFieldsEdited

ItemEdit == \E failed \in BOOLEAN : SaveInventoryEditor(failed) \/ ProfileBankEditor(failed)

CurrentFilesUnchanged ==
    /\ manage_save_state'.current_file = manage_save_state.current_file
    /\ manage_profile_state'.current_file = manage_profile_state.current_file

IsSorted(files) ==
    \A i, j \in 1..Len(files) : i < j => ~FileLess(files[j], files[i])

\* C6: the registry is in ascending file order in every state, whatever order the
\* scans returned the files in.
C6_RegistrySorted == IsSorted(loaded_files)

\* a registry of several files
C6_Witness ==
    /\ Len(loaded_files) >= 2
    /\ FileLess(loaded_files[1], loaded_files[2])

\* a scan completes successfully with zero files
EmptyScanHandled ==
    \/ \E c \in Running("load_files_in_directory") :
            c.stage = "loaded" /\ c.files = {} /\ FilesLoaded(c, <<>>, TRUE)
    \/ \E c \in Running("load_files_after_save") :
            c.stage = "loaded" /\ c.files = {} /\ FilesLoadedAfterSave(c, <<>>, TRUE)

\* C7: when a scan completes successfully with zero files, the controller does not
\* abort and the view is ChooseSaveDirectory afterwards.
C7_EmptyScanChoosesDirectory ==
    [][ EmptyScanHandled => ~aborted' /\ view_state' = ChooseSaveDirectory ]_vars

\* the backup-and-write commands in flight
WritesInFlight == { c \in cmds : IsSaveOp(c) }

\* C8: at most one backup-and-write command is in flight at any time.
C8_OneWriteInFlight == Cardinality(WritesInFlight) <= 1

\* the commands of the commits in flight
CommitCommands(s) == { c \in s : IsSaveOp(c) \/ c.op = "load_files_after_save" }

\* what a settings change leaves alone
SettingsFrame ==
    /\ CommitCommands(cmds') = CommitCommands(cmds)
    /\ config'.saves_dir = config.saves_dir
    /\ UNCHANGED <<loaded_files, loaded_files_selected, manage_save_state,
                   manage_profile_state, is_reloading_saves, disk>>

\* C9: a UI scale change or a backup directory change handled while a commit is in
\* flight is applied to config and to settings_state in that step and leaves the
\* commit's commands, the registry, the selection and the files on disk alone; the
\* FilesLoadedAfterSave of the commit then selects by its own payload only.
C9_SettingsChangeDuringCommit ==
    [][ CommitCommands(cmds) # {} =>
        /\ DecreaseUIScale =>
              /\ config'.ui_scale_factor = Decreased(config.ui_scale_factor)
              /\ settings_state'.ui_scale_factor = config'.ui_scale_factor
              /\ SettingsFrame
        /\ IncreaseUIScale =>
              /\ config'.ui_scale_factor = Increased(config.ui_scale_factor)
              /\ settings_state'.ui_scale_factor = config'.ui_scale_factor
              /\ SettingsFrame
        /\ \A c \in Running("choose_dir") : \A dir \in BackupDirs :
              ChangeBackupDirCompleted(c, dir) =>
                /\ config'.backup_dir = dir
                /\ settings_state'.backup_dir_input = dir
                /\ SettingsFrame
        /\ \A c \in Running("load_files_after_save") :
              \A order \in Orderings(c.files) : \A mapped \in BOOLEAN :
                FilesLoadedAfterSave(c, order, mapped) /\ c.stage = "loaded" /\ c.files # {}
                => /\ loaded_files' = SortFiles(order)
                   /\ OwedSelection(loaded_files_selected', SortFiles(order), c.saved_file)
      ]_vars

\* the backup directory has changed since a commit in flight was issued
C9_Witness ==
    \E c \in cmds : IsSaveOp(c) /\ c.backup_dir # config.backup_dir

\* the Interaction messages that raise no notification
QuietInteraction ==
    \/ Ignore
    \/ ChooseDirPressed
    \/ \E tab \in SaveTabInputs : SaveTabBar(tab)
    \/ \E slot \in SlotInputs : Slot(slot)
    \/ \E save_type \in SaveTypeInputs : SaveTypeSelected(save_type)
    \/ \E level \in LevelInputs : Level(level)
    \/ \E xp \in XpInputs : ExperiencePoints(xp)
    \/ SaveFieldsEdited
    \/ \E tab \in ProfileTabInputs : ProfileTabBar(tab)
    \/ \E profile_type \in ProfileTypeInputs : ProfileTypeSelected(profile_type)
    \/ \E golden_keys \in KeysInputs : GoldenKeys(golden_keys)
    \/ ProfileFieldsEdited
    \/ \E which \in {"config", "backup", "saves"} : OpenDirPressed(which)
    \/ \E purpose \in {"change_backup", "change_saves"} : ChangeDirPressed(purpose)
    \/ DecreaseUIScale
    \/ IncreaseUIScale
    \/ RefreshSavesDirectory

\* the Interaction messages that may raise a notification, each with what it raises
RaisingInteraction ==
    \/ \E failed \in BOOLEAN :
          /\ SaveInventoryEditor(failed) \/ ProfileBankEditor(failed)
          /\ failed => notification' = Notify("Item editor", "Negative")
          /\ ~failed => notification' = None
    \/ \E serialized \in BOOLEAN :
          /\ SaveFilePressed(serialized)
          /\ SaveCommitFails(serialized) =>
                notification' = Notify("Failed to save file", "Negative")
          /\ ~SaveCommitFails(serialized) => notification' = None
    \/ \E serialized \in BOOLEAN :
          /\ SaveProfilePressed(serialized)
          /\ ProfileCommitFails(serialized) => IsNegative(notification')
          /\ ~ProfileCommitFails(serialized) => notification' = None
    \/ \E c \in Running("open_dir") : \E ok \in BOOLEAN :
          /\ OpenDirCompleted(c, ok)
          /\ ok => notification' = None
          /\ ~ok => notification' = Notify(OpenDirFailure(c.which), "Negative")
    \/ \E c \in Running("choose_dir") : \E dir \in BackupDirs \cup {Cancelled} :
          /\ ChangeBackupDirCompleted(c, dir)
          /\ dir # Cancelled => notification' = None
          /\ dir = Cancelled =>
                notification' = Notify("Failed to choose backups folder", "Negative")
    \/ \E c \in Running("choose_dir") : \E dir \in SavesDirs \cup {Cancelled} :
          /\ ChangeSavesDirCompleted(c, dir)
          /\ dir # Cancelled => notification' = None
          /\ dir = Cancelled =>
                notification' = Notify("Failed to choose saves folder", "Negative")
    \/ \E f \in SeqToSet(loaded_files) : \E mapped \in BOOLEAN :
          /\ LoadedFileSelected(f, mapped)
          /\ mapped => notification' = None
          /\ ~mapped =>
                notification' = Notify("Failed to map loaded file to editor", "Negative")

\* a step of Bl3Message::Interaction
Interaction ==
    \/ QuietInteraction
    \/ \E failed \in BOOLEAN : SaveInventoryEditor(failed) \/ ProfileBankEditor(failed)
    \/ \E serialized \in BOOLEAN : SaveFilePressed(serialized) \/ SaveProfilePressed(serialized)
    \/ \E c \in Running("open_dir") : \E ok \in BOOLEAN : OpenDirCompleted(c, ok)
    \/ \E c \in Running("choose_dir") : \E dir \in BackupDirs \cup {Cancelled} :
          ChangeBackupDirCompleted(c, dir)
    \/ \E c \in Running("choose_dir") : \E dir \in SavesDirs \cup {Cancelled} :
          ChangeSavesDirCompleted(c, dir)
    \/ \E f \in SeqToSet(loaded_files) : \E mapped \in BOOLEAN : LoadedFileSelected(f, mapped)

\* C10: after an Interaction message is handled the notification is absent, or is
\* the one the handling of that message raised: handlers that raise nothing leave
\* none, and the others leave none on success and their own on failure.
C10_InteractionClearsNotification ==
    [][ Interaction => (QuietInteraction /\ notification' = None) \/ RaisingInteraction ]_vars

\* at a remembered directory that is gone the start raises a notification; the
\* directory picker has then been opened and no notification is shown
C10_Witness ==
    /\ config.saves_dir = MissingDir
    /\ view_state = ChooseSaveDirectory
    /\ Running("choose_dir") # {}
    /\ notification = None

\* the handling of a scan that failed
ScanFailureHandled ==
    \/ \E c \in Running("load_files_in_directory") :
            c.stage = "failed" /\ FilesLoaded(c, <<>>, TRUE)
    \/ \E c \in Running("load_files_after_save") :
            c.stage = "failed" /\ FilesLoadedAfterSave(c, <<>>, TRUE)

\* C11: when a directory scan fails (FilesLoaded or FilesLoadedAfterSave with an
\* error), the view becomes ChooseSaveDirectory, a Negative notification is active,
\* the registry, the selection and the saves directory of the config are unchanged,
\* and no command is issued.
C11_ScanFailureChoosesDirectory ==
    [][ ScanFailureHandled =>
          /\ view_state' = ChooseSaveDirectory
          /\ IsNegative(notification')
          /\ loaded_files' = loaded_files
          /\ loaded_files_selected' = loaded_files_selected
          /\ config'.saves_dir = config.saves_dir
          /\ cmds' \subseteq cmds ]_vars

\* a refresh of a loaded directory has failed: the registry is still the loaded one
C11_Witness ==
    /\ view_state = ChooseSaveDirectory
    /\ notification = LoadFolderFailed
    /\ loaded_files # <<>>
    /\ InRegistry(loaded_files_selected)
    /\ config.saves_dir = "d1"
    /\ cmds = {}

\* C12: a Save tab-bar message is handled in a ManageSave state only and a Profile
\* tab-bar message in a ManageProfile state only, so that neither changes the domain
\* of the view.
C12_TabBarKeepsDomain ==
    [][ /\ (\E tab \in SaveTabInputs : SaveTabBar(tab)) => view_state.tag = "ManageSave"
        /\ (\E tab \in ProfileTabInputs : ProfileTabBar(tab)) =>
              view_state.tag = "ManageProfile" ]_vars

\* C13: while the reload of a commit is outstanding, from the handling of the
\* successful completion of the write to the handling of FilesLoadedAfterSave, the
\* view is Loading.
C13_LoadingWhileReloading ==
    Running("load_files_after_save") # {} => view_state = Loading

\* C14: the UI scale factor of settings_state and of config, counted in steps of
\* 0.05, stays within [0.50, 2.0].
C14_ScaleWithinBounds ==
    /\ settings_state.ui_scale_factor \in MinScaleSteps..MaxScaleSteps
    /\ config.ui_scale_factor \in MinScaleSteps..MaxScaleSteps

\* the step issues one command, a save of the config as the step leaves it
SavesConfig ==
    \E s \in cmds' \ cmds :
        /\ cmds' \ cmds = {s}
        /\ s.op = "config_save"
        /\ s.config = config'

\* C15: every step that changes config issues, in that step, exactly one save of the
\* changed config, and so does every handler that sets a field of it: a backup
\* directory chosen, a UI scale changed, the saves directory recorded after a scan.
C15_ConfigSavedOnMutation ==
    [][ /\ config' # config => SavesConfig
        /\ \A c \in Running("choose_dir") : \A dir \in BackupDirs :
              ChangeBackupDirCompleted(c, dir) => SavesConfig /\ config'.backup_dir = dir
        /\ (DecreaseUIScale \/ IncreaseUIScale)
              /\ settings_state'.ui_scale_factor # settings_state.ui_scale_factor
              => SavesConfig /\ config'.ui_scale_factor = settings_state'.ui_scale_factor
        /\ \A c \in Running("load_files_in_directory") :
              \A order \in Orderings(c.files) : \A mapped \in BOOLEAN :
                FilesLoaded(c, order, mapped) /\ c.stage = "loaded" /\ c.files # {}
                => SavesConfig /\ config'.saves_dir = c.dir ]_vars

\* the saves directory has been changed to another one, and the save of the config
\* that records it is in flight
C15_Witness ==
    /\ config.saves_dir = "d2"
    /\ \E s \in Running("config_save") : s.config = config
    /\ Len(loaded_files) = 1

\* C16: when a write fails (SaveFileCompleted or SaveProfileCompleted with an
\* error), a Negative notification is raised, no command is issued (no reload, no
\* retry), and the registry, the selection, the editors' state, the view, the config
\* and is_reloading_saves are unchanged.
C16_FailedWriteChangesNothing ==
    [][ \A c \in WritesInFlight :
          SaveCompleted(c) /\ c.write # "ok"
          => /\ IsNegative(notification')
             /\ cmds' = cmds \ {c}
             /\ UNCHANGED <<loaded_files, loaded_files_selected, manage_save_state,
                            manage_profile_state, view_state, config, settings_state,
                            is_reloading_saves>> ]_vars

\* the write of a profile whose fields are valid has failed
C16_Witness ==
    /\ notification = Notify("Failed to save profile", "Negative")
    /\ MapAllStatesToProfile(manage_profile_state, manage_profile_state.current_file).ok
    /\ view_state.tag = "ManageProfile"
    /\ ~is_reloading_saves
    /\ WritesInFlight = {}

\* the step issues one command, a scan of the saves directory that carries the file
\* the commit c wrote
ReloadsWritten(c) ==
    \E l \in cmds' \ cmds :
        /\ cmds' \ cmds = {l}
        /\ l.op = "load_files_after_save"
        /\ l.stage = "issued"
        /\ l.dir = config.saves_dir
        /\ l.saved_file.kind = c.new.header_type
        /\ l.saved_file.model = c.new
        /\ l.saved_file.model.file_name = c.output_file.file_name
        /\ AsBytes(l.saved_file.model) = c.output

\* C17: every successful completion of a write with an expected file kind raises a
\* Positive notification and issues exactly one reload of the saves directory, which
\* carries the file just written for the reselection.
C17_SuccessfulWriteReloads ==
    [][ \A c \in WritesInFlight :
          SaveCompleted(c) /\ c.write = "ok" /\ ExpectedHeader(c)
          => /\ notification' # None
             /\ notification'[1].sentiment = "Positive"
             /\ is_reloading_saves'
             /\ ReloadsWritten(c) ]_vars

\* a save edited to another level has been written, and its reload is in flight
C17_Witness ==
    \E l \in Running("load_files_after_save") :
        /\ notification = Notify("Successfully saved file!", "Positive")
        /\ is_reloading_saves
        /\ l.saved_file.model.player_level = MaxLevel
        /\ loaded_files_selected.model.player_level # MaxLevel
        /\ OnDisk(l.saved_file.model) \in disk[l.dir]

\* the model a write returned has a header type of the other domain
UnexpectedKind(c) ==
    \/ c.op = "save_file" /\ c.new.header_type \notin {"PcSave", "Ps4Save"}
    \/ c.op = "save_profile" /\ c.new.header_type \notin {"PcProfile", "Ps4Profile"}

\* C18: a successful SaveFileCompleted whose model has a header type other than
\* PcSave and Ps4Save, and a successful SaveProfileCompleted whose model has one other
\* than PcProfile and Ps4Profile, aborts the process and issues no reload; with an
\* expected header type the handler does not abort; nothing is handled after an abort.
C18_UnexpectedKindAborts ==
    [][ /\ ~aborted
        /\ \A c \in WritesInFlight :
              SaveCompleted(c) /\ c.write = "ok"
              => IF UnexpectedKind(c)
                 THEN aborted' /\ cmds' = cmds \ {c}
                 ELSE ~aborted' ]_vars

\* a save committed under the header type of a profile has been written, and the
\* handling of its completion has aborted the process
C18_Witness ==
    /\ aborted
    /\ manage_save_state.save_view_state.save_type_selected = "PcProfile"
    /\ \E e \in disk[config.saves_dir] : e.bytes[1] = HeaderCode("PcProfile") /\ Len(e.bytes) = 3
    /\ cmds = {}

\* the step issues one command, a scan of dir
ScansOnly(dir) ==
    \E l \in cmds' \ cmds :
        /\ cmds' \ cmds = {l}
        /\ l.op = "load_files_in_directory"
        /\ l.stage = "issued"
        /\ l.dir = dir

\* C19: on LoadSaves, if the remembered saves directory exists, exactly one scan of
\* it is issued and the view does not become ChooseSaveDirectory in that step;
\* otherwise the view becomes ChooseSaveDirectory and no scan is issued, and a
\* Negative notification is raised exactly when the remembered directory is not the
\* default (empty) path.
C19_LoadSavesScansOrChooses ==
    [][ \A c \in Running("load_lazy_data") :
          LoadSaves(c)
          => IF config.saves_dir \in DOMAIN disk
             THEN /\ ScansOnly(config.saves_dir)
                  /\ view_state' # ChooseSaveDirectory
                  /\ notification' = notification
             ELSE /\ view_state' = ChooseSaveDirectory
                  /\ cmds' = cmds \ {c}
                  /\ IsNegative(notification') <=> config.saves_dir # DefaultPath ]_vars

\* the remembered directory is gone: the start has raised the notification and asks
\* for a directory
C19_Witness ==
    /\ config.saves_dir = MissingDir
    /\ view_state = ChooseSaveDirectory
    /\ rendered = "Initializing"
    /\ IsNegative(notification)
    /\ cmds = {}

\* C20: when a commit aborts because its mapping or its serialization fails, the
\* editable state of the two domains is after the handler what it was before it, so
\* that the pending edits stay available for correction.
C20_FailedCommitKeepsEdits ==
    [][ \A serialized \in BOOLEAN :
            (\/ SaveFilePressed(serialized) /\ SaveCommitFails(serialized)
             \/ SaveProfilePressed(serialized) /\ ProfileCommitFails(serialized))
            => /\ manage_save_state'.save_view_state = manage_save_state.save_view_state
               /\ manage_profile_state'.profile_view_state =
                     manage_profile_state.profile_view_state ]_vars

\* the commit of a profile with too many golden keys has been refused, and the
\* editor still holds the number entered
C20_Witness ==
    /\ view_state.tag = "ManageProfile"
    /\ notification = Notify("Failed to save profile", "Negative")
    /\ manage_profile_state.profile_view_state.golden_keys_input = MaxKeys + 1
    /\ manage_profile_state.current_file.golden_keys = 0
    /\ cmds = {}

\* a reload that succeeded finds the file it carries
ReloadFindsWritten ==
    \E c \in Running("load_files_after_save") : \E order \in Orderings(c.files) :
        /\ c.stage = "loaded"
        /\ FilesLoadedAfterSave(c, order, TRUE)
        /\ EqualEntries(loaded_files', c.saved_file) # {}

\* C21: when a successful reload after a commit finds the written file, the current
\* file and the editable state of its domain are seeded again from the reloaded
\* entry, for a save as for a profile.
C21_ReloadReseedsDomain ==
    [][ ReloadFindsWritten =>
          IF IsSaveKind(loaded_files_selected')
          THEN manage_save_state' = SaveStateOf(loaded_files_selected'.model)
          ELSE manage_profile_state' = ProfileStateOf(loaded_files_selected'.model) ]_vars

\* the editable state of a save is valid: its fields are in range and its type is a
\* type of saves
ValidSaveState ==
    /\ MapAllStatesToSave(manage_save_state, manage_save_state.current_file).ok
    /\ manage_save_state.save_view_state.save_type_selected \in {"PcSave", "Ps4Save"}

ValidProfileState ==
    /\ MapAllStatesToProfile(manage_profile_state, manage_profile_state.current_file).ok
    /\ manage_profile_state.profile_view_state.profile_type_selected
          \in {"PcProfile", "Ps4Profile"}

C23_CommitEditsCloneOnly ==
    [][ \A serialized \in BOOLEAN :
          /\ SaveFilePressed(serialized) =>
                /\ manage_save_state'.current_file = manage_save_state.current_file
                /\ \A s \in cmds' \ cmds : s.existing = manage_save_state.current_file
                /\ ~SaveCommitFails(serialized) => cmds' \ cmds # {}
          /\ SaveProfilePressed(serialized) =>
                /\ manage_profile_state'.current_file = manage_profile_state.current_file
                /\ \A s \in cmds' \ cmds : s.existing = manage_profile_state.current_file
                /\ ~ProfileCommitFails(serialized) => cmds' \ cmds # {} ]_vars

\* the commit of a save edited to the other platform's type is in flight: the write
\* has the edited clone and the current file, which is still as it was loaded
C23_Witness ==
    \E s \in Running("save_file") :
        /\ s.new.header_type = "Ps4Save"
        /\ s.existing.header_type = "PcSave"
        /\ manage_save_state.current_file = s.existing
        /\ loaded_files_selected.model = s.existing

\* the handling of the completion message of an asynchronous command
CompletionHandled ==
    \/ \E c \in cmds : LoadSaves(c)
    \/ \E c \in cmds : \E ok \in BOOLEAN : ConfigSaveCompleted(c, ok)
    \/ \E c \in Running("open_dir") : \E ok \in BOOLEAN : OpenDirCompleted(c, ok)
    \/ \E c \in Running("choose_dir") : \E dir \in BackupDirs \cup {Cancelled} :
            ChangeBackupDirCompleted(c, dir)
    \/ \E c \in Running("choose_dir") : \E dir \in SavesDirs \cup {Cancelled} :
            ChangeSavesDirCompleted(c, dir) \/ ChooseDirCompleted(c, dir)
    \/ \E c \in Running("load_files_in_directory") \cup Running("load_files_after_save") :
            \E order \in Orderings(c.files) : \E mapped \in BOOLEAN :
                FilesLoaded(c, order, mapped) \/ FilesLoadedAfterSave(c, order, mapped)
    \/ \E c \in WritesInFlight : SaveCompleted(c)

\* C24: a notification stays until a user interaction, a ClearNotification or a newer
\* notification: the handling of a completion message, a successful open-directory
\* or choose-directory completion included, does not remove it without raising one.
C24_CompletionKeepsNotification ==
    [][ CompletionHandled /\ ~aborted' /\ notification # None => notification' # None ]_vars

\* C25: the handling of a Config SaveCompleted message, success or error, changes
\* nothing of the controller's state and issues no command: a failed save of the
\* config is not tried again.
C25_ConfigSaveCompletedChangesNothing ==
    [][ \A c \in Running("config_save") : \A ok \in BOOLEAN :
          ConfigSaveCompleted(c, ok)
          => /\ cmds' = cmds \ {c}
             /\ UNCHANGED <<config, settings_state, view_state, manage_save_state,
                            manage_profile_state, loaded_files_selected, loaded_files,
                            notification, is_reloading_saves, aborted, disk>> ]_vars

\* the save of a config with another backup directory has completed
C25_Witness ==
    /\ config.backup_dir = "bk2"
    /\ settings_state.backup_dir_input = "bk2"
    /\ cmds = {}
    /\ notification = None

\* C26: when a directory is chosen (ChooseDirCompleted or ChangeSavesDirCompleted with
\* a directory) or a rescan is requested (RefreshSavesDirectory), the view becomes
\* Loading and exactly one scan, of that directory, is issued; when the picker fails
\* or is cancelled, the view is unchanged, no scan is issued and a Negative
\* notification is raised.
C26_ChosenDirectoryIsScanned ==
    [][ /\ \A c \in Running("choose_dir") : \A dir \in SavesDirs :
              ChooseDirCompleted(c, dir) \/ ChangeSavesDirCompleted(c, dir)
              => view_state' = Loading /\ ScansOnly(dir)
        /\ RefreshSavesDirectory => view_state' = Loading /\ ScansOnly(config.saves_dir)
        /\ \A c \in Running("choose_dir") :
              ChooseDirCompleted(c, Cancelled) \/ ChangeSavesDirCompleted(c, Cancelled)
              => /\ view_state' = view_state
                 /\ cmds' = cmds \ {c}
                 /\ IsNegative(notification') ]_vars

\* another saves directory has been chosen in the settings: its scan is in flight
\* and the view is Loading
C26_Witness ==
    /\ view_state = Loading
    /\ config.saves_dir = "d1"
    /\ loaded_files # <<>>
    /\ \E l \in Running("load_files_in_directory") : l.dir = "d2" /\ l.stage = "issued"

\* the registry and the selection are those of the files a completion carries
Applied(files) ==
    /\ SeqToSet(loaded_files') = files
    /\ Len(loaded_files') = Cardinality(files)
    /\ IsSorted(loaded_files')
    /\ InRegistry(loaded_files_selected)'

\* C27: no completion is discarded: a successful FilesLoaded or FilesLoadedAfterSave
\* with files is applied to the registry and the selection in whatever view it arrives
\* and whatever else is in flight, so that the registry after several scans is that
\* of the completion handled last.
C27_CompletionsAreApplied ==
    [][ /\ \A c \in Running("load_files_in_directory") :
              \A order \in Orderings(c.files) : \A mapped \in BOOLEAN :
                FilesLoaded(c, order, mapped) /\ c.stage = "loaded" /\ c.files # {}
                => Applied(c.files) /\ loaded_files_selected' = loaded_files'[1]
        /\ \A c \in Running("load_files_after_save") :
              \A order \in Orderings(c.files) : \A mapped \in BOOLEAN :
                FilesLoadedAfterSave(c, order, mapped) /\ c.stage = "loaded" /\ c.files # {}
                => Applied(c.files) ]_vars

\* two scans were in flight, of the directory chosen in the settings and of the
\* remembered one: the first was handled first and its save of the config is still
\* in flight, the registry is that of the second
C27_Witness ==
    /\ config.saves_dir = "d1"
    /\ SeqToSet(loaded_files) = ScanResult("d1")
    /\ \E s \in Running("config_save") : s.config.saves_dir = "d2"
    /\ \E s \in Running("config_save") : s.config.saves_dir = "d1"

\* the writes a step issues
IssuedWrites == { c \in WritesInFlight' : \A d \in WritesInFlight : d.id # c.id }

CommitPressed ==
    \E serialized \in BOOLEAN : SaveFilePressed(serialized) \/ SaveProfilePressed(serialized)

TabBarFrame ==
    /\ notification' = None
    /\ UNCHANGED <<config, settings_state, manage_save_state, manage_profile_state,
                   loaded_files_selected, loaded_files, is_reloading_saves, cmds, disk>>

\* C30: a Save tab-bar message for tab t handled in ManageSave(t0) yields ManageSave(t)
\* and a Profile tab-bar message for tab t handled in ManageProfile(t0) yields
\* ManageProfile(t); the notification is cleared, the registry, the selection, the
\* editors' state and the config are unchanged and no command is issued.
C30_TabBarChangesTabOnly ==
    [][ /\ \A tab \in SaveTabInputs :
              SaveTabBar(tab) /\ view_state.tag = "ManageSave"
              => view_state' = ManageSave(tab) /\ TabBarFrame
        /\ \A tab \in ProfileTabInputs :
              ProfileTabBar(tab) /\ view_state.tag = "ManageProfile"
              => view_state' = ManageProfile(tab) /\ TabBarFrame ]_vars

\* the Settings tab of the profile editor is shown for the selected profile
C30_Witness ==
    /\ view_state = ManageProfile("Settings")
    /\ IsProfileKind(loaded_files_selected)
    /\ manage_profile_state.current_file = loaded_files_selected.model
    /\ notification = None
    /\ cmds = {}

\* C31: in every state the mirror of the settings agrees with the config: the saves
\* directory, the backup directory and the UI scale factor.
C31_MirrorAgreesWithConfig ==
    /\ settings_state.saves_dir_input = config.saves_dir
    /\ settings_state.backup_dir_input = config.backup_dir
    /\ settings_state.ui_scale_factor = config.ui_scale_factor

\* the backup directory and the scale have both been changed in the settings
C31_Witness ==
    /\ config.backup_dir = "bk2"
    /\ settings_state.backup_dir_input = "bk2"
    /\ config.ui_scale_factor # MinScaleSteps
    /\ settings_state.ui_scale_factor = config.ui_scale_factor

\* C32: while the program runs, is_reloading_saves is true exactly when a reload
\* issued after a commit is in flight, its FilesLoadedAfterSave not yet handled.
C32_ReloadFlagTracksReloads ==
    ~aborted => (is_reloading_saves <=> Running("load_files_after_save") # {})

\* the view waits for a scan
Waiting ==
    \/ view_state = Loading
    \/ view_state = Initializing /\ Running("load_files_in_directory") # {}

Settled == view_state.tag \in {"ChooseSaveDirectory", "ManageSave", "ManageProfile"}

\* C33: every issued scan completing, a view that is Loading, or Initializing with a
\* scan issued, eventually becomes ChooseSaveDirectory, ManageSave or ManageProfile.
C33_LoadingEventuallyLeaves == Waiting ~> Settled

\* C34: the reload issued when the completion of a write is handled scans the
\* directory the write went to, whatever was handled since the commit was pressed.
C34_ReloadScansWrittenDirectory ==
    [][ \A c \in WritesInFlight :
          SaveCompleted(c) /\ c.write = "ok" /\ ExpectedHeader(c)
          => \A l \in Running("load_files_after_save")' :
                l.id = c.id => l.dir = c.output_file.dir ]_vars

\* no scan, reload or write is in flight
NothingLoading ==
    /\ Running("load_files_in_directory") = {}
    /\ Running("load_files_after_save") = {}
    /\ WritesInFlight = {}

\* C35: once no scan or reload is in flight, the registry of a Manage view holds the
\* files of the directory the config records as the saves directory.
C35_RegistryOfConfiguredDirectory ==
    ~aborted /\ NothingLoading /\ view_state.tag \in {"ManageSave", "ManageProfile"}
    => SeqToSet(loaded_files) = ScanResult(config.saves_dir)

\* the number a string of lowercase hexadecimal digits denotes
RECURSIVE HexValue(_)
HexValue(s) ==
    IF s = <<>> THEN 0
    ELSE 16 * HexValue(SubSeq(s, 1, Len(s) - 1))
         + (CHOOSE d \in 0..15 : HexDigits[d + 1] = s[Len(s)])

\* name is the lowercase hexadecimal rendering of slot followed by ".sav"
IsSlotName(name, slot) ==
    /\ Len(name) > 4
    /\ SubSeq(name, Len(name) - 3, Len(name)) = << ".", "s", "a", "v" >>
    /\ \A i \in 1..(Len(name) - 4) : \E d \in 1..16 : HexDigits[d] = name[i]
    /\ name[1] # "0" \/ Len(name) = 5
    /\ HexValue(SubSeq(name, 1, Len(name) - 4)) = slot

\* C36: after a Slot edit with value s, slot_input is s, filename_input and the file
\* name of the current file are the lowercase hexadecimal rendering of s followed by
\* ".sav", and the registry and its selected entry are as they were; the destination
\* of a commit carries the file name of the current file.
C36_SlotEditNamesFile ==
    [][ /\ \A slot \in SlotInputs :
              Slot(slot) =>
                /\ manage_save_state'.save_view_state.slot_input = slot
                /\ IsSlotName(manage_save_state'.save_view_state.filename_input, slot)
                /\ manage_save_state'.current_file.file_name =
                      manage_save_state'.save_view_state.filename_input
                /\ loaded_files_selected' = loaded_files_selected
                /\ loaded_files' = loaded_files
        /\ \A serialized \in BOOLEAN :
              SaveFilePressed(serialized) =>
                \A c \in IssuedWrites :
                    c.output_file.file_name = manage_save_state.current_file.file_name ]_vars

\* slot 26 was entered for the save loaded from 1.sav and the commit is in flight:
\* the editor shows 1a.sav, the write goes to 1a.sav, the selection is still 1.sav
C36_Witness ==
    /\ manage_save_state.save_view_state.slot_input = 26
    /\ manage_save_state.save_view_state.filename_input = << "1", "a", ".", "s", "a", "v" >>
    /\ \E c \in WritesInFlight :
          c.output_file.file_name = << "1", "a", ".", "s", "a", "v" >>
    /\ loaded_files_selected.model.file_name = << "1", ".", "s", "a", "v" >>
    /\ loaded_files_selected \in SeqToSet(loaded_files)

\* experience_to_level(xp).unwrap_or(1)
LevelOf(xp) == IF ExperienceToLevel(xp).ok THEN ExperienceToLevel(xp).level ELSE 1

LevelEdit == \E level \in LevelInputs : Level(level)

ExperienceEdit == \E xp \in XpInputs : ExperiencePoints(xp)

\* C37: after Level(l), level_input is l and experience_points_input the minimum
\* experience of level l (0 when l is 0); after ExperiencePoints(x),
\* experience_points_input is x and level_input the level of x (1 when x has none);
\* after an ExperiencePoints edit and after a Level edit of at least 1 the level of
\* experience_points_input is level_input.
C37_LevelAndExperienceCoupled ==
    [][ /\ \A level \in LevelInputs :
              Level(level) =>
                LET v == manage_save_state'.save_view_state
                IN  /\ v.level_input = level
                    /\ level = 0 => v.experience_points_input = 0
                    /\ level > 0 =>
                          /\ v.experience_points_input = REQUIRED_XP_LIST[level]
                          /\ \A l \in 1..(level - 1) :
                                REQUIRED_XP_LIST[l] < v.experience_points_input
                          /\ LevelOf(v.experience_points_input) = v.level_input
        /\ \A xp \in XpInputs :
              ExperiencePoints(xp) =>
                LET v == manage_save_state'.save_view_state
                IN  /\ v.experience_points_input = xp
                    /\ v.level_input = LevelOf(xp)
                    /\ (\E l \in 1..Len(REQUIRED_XP_LIST) : REQUIRED_XP_LIST[l] <= xp)
                          => /\ REQUIRED_XP_LIST[v.level_input] <= xp
                             /\ v.level_input < Len(REQUIRED_XP_LIST)
                                   => xp < REQUIRED_XP_LIST[v.level_input + 1]
                    /\ (\A l \in 1..Len(REQUIRED_XP_LIST) : REQUIRED_XP_LIST[l] > xp)
                          => v.level_input = 1 ]_vars

\* C37 as stated: after either edit the level of experience_points_input is
\* level_input.
C37_AsStated ==
    [][ LevelEdit \/ ExperienceEdit =>
          LevelOf(manage_save_state'.save_view_state.experience_points_input)
             = manage_save_state'.save_view_state.level_input ]_vars

\* level 0 was entered for a save of level 1: the editor holds level 0 and no
\* experience
C37_Witness ==
    /\ view_state.tag = "ManageSave"
    /\ manage_save_state.current_file.player_level = 1
    /\ manage_save_state.save_view_state.level_input = 0
    /\ manage_save_state.save_view_state.experience_points_input = 0

\* a field edit of the save or the profile editor, the item editors aside
FieldEdit == SlotEdit \/ OtherFieldEdit

SaveView == manage_save_state.save_view_state

ProfileView == manage_profile_state.profile_view_state

C39_CurrentFileIsSelection ==
    /\ view_state.tag = "ManageSave" =>
          /\ IsSaveKind(loaded_files_selected)
          /\ manage_save_state.current_file = loaded_files_selected.model
    /\ view_state.tag = "ManageProfile" =>
          /\ IsProfileKind(loaded_files_selected)
          /\ manage_profile_state.current_file = loaded_files_selected.model

====
